---- MODULE Spec2Model ----
(***************************************************************************)
(* Model of etc/postgen/schema/json_schema.go: the JSON Schema flattener.  *)
(*                                                                         *)
(* Go strings are sequences of one-character strings.  A parsed JSON value *)
(* (Go `any`) is a record [t, m, s, v]: t is the dynamic type, m the       *)
(* map[string]any of an object, s the []any of an array and v the text of  *)
(* a string or number.  JSON null parses to the nil interface value, which *)
(* is Null below.                                                          *)
(***************************************************************************)
EXTENDS Integers, Sequences, FiniteSets, TLC

VARIABLES
    fsys,       \* the fs.FS: its entries in fs.WalkDir's traversal order
    writable,   \* whether fsys implements WriteFile
    pos,        \* index of the next entry fs.WalkDir hands to the callback
    updates,    \* the callback's captured map: path -> bytes
    disk,       \* path -> bytes now stored in fsys
    log,        \* the I/O calls made on fsys so far, in order
    last,       \* the locals of the most recent callback invocation
    ret,        \* what InlineBundledSchemasInFS returned
    proot,      \* getByPointer: argument root
    pptr,       \* getByPointer: argument ptr
    pkey,       \* the $defs key the pointer was escaped from
    pres        \* getByPointer: result

vars == <<fsys, writable, pos, updates, disk, log, last, ret, proot, pptr, pkey, pres>>

-----------------------------------------------------------------------------
(* Bounds of the model.                                                    *)

MaxFiles == 2
MaxStack == 4
MaxNest == 1
MaxKeyLen == 3
MaxPtrLen == 4

-----------------------------------------------------------------------------
(* Strings.                                                                *)

Max(a, b) == IF a >= b THEN a ELSE b

SetMax(S) == IF S = {} THEN 0 ELSE CHOOSE x \in S : \A y \in S : y <= x

HasPrefix(s, p) == Len(s) >= Len(p) /\ SubSeq(s, 1, Len(p)) = p

HasSuffix(s, p) == Len(s) >= Len(p) /\ SubSeq(s, Len(s) - Len(p) + 1, Len(s)) = p

TrimPrefix(s, p) == IF HasPrefix(s, p) THEN SubSeq(s, Len(p) + 1, Len(s)) ELSE s

RECURSIVE ReplaceAll(_, _, _)
ReplaceAll(s, old, new) ==
    IF Len(s) < Len(old) THEN s
    ELSE IF SubSeq(s, 1, Len(old)) = old
         THEN new \o ReplaceAll(SubSeq(s, Len(old) + 1, Len(s)), old, new)
         ELSE <<Head(s)>> \o ReplaceAll(Tail(s), old, new)

RECURSIVE Split(_, _)
Split(s, c) ==
    LET hits == {i \in 1..Len(s) : s[i] = c} IN
    IF hits = {} THEN <<s>>
    ELSE LET i == CHOOSE j \in hits : \A k \in hits : j <= k
         IN <<SubSeq(s, 1, i - 1)>> \o Split(SubSeq(s, i + 1, Len(s)), c)

LowerChar(c) ==
    CASE c = "J" -> "j"
      [] c = "S" -> "s"
      [] c = "O" -> "o"
      [] c = "N" -> "n"
      [] OTHER -> c

ToLower(s) == [i \in 1..Len(s) |-> LowerChar(s[i])]

-----------------------------------------------------------------------------
(* JSON values.                                                            *)

NoMap == <<>>

Obj(m) == [t |-> "obj", m |-> m, s |-> <<>>, v |-> <<>>]
Arr(s) == [t |-> "arr", m |-> NoMap, s |-> s, v |-> <<>>]
Str(v) == [t |-> "str", m |-> NoMap, s |-> <<>>, v |-> v]
Num(v) == [t |-> "num", m |-> NoMap, s |-> <<>>, v |-> v]
Null == [t |-> "null", m |-> NoMap, s |-> <<>>, v |-> <<>>]

K_ref == <<"$", "r", "e", "f">>
K_defs == <<"$", "d", "e", "f", "s">>
K_id == <<"$", "i", "d">>
K_schema == <<"$", "s", "c", "h", "e", "m", "a">>

\* m with key k set to x (Go: m[k] = x)
MapPut(m, k, x) == [j \in (DOMAIN m) \cup {k} |-> IF j = k THEN x ELSE m[j]]

\* fmt's %T of a value decoded by encoding/json
GoType(n) ==
    CASE n.t = "obj" -> "map[string]interface {}"
      [] n.t = "arr" -> "[]interface {}"
      [] n.t = "str" -> "string"
      [] n.t = "num" -> "float64"
      [] OTHER -> "<nil>"

-----------------------------------------------------------------------------
(* Errors and results.                                                     *)

NoErr == [kind |-> "none", ptr |-> <<>>, key |-> <<>>, chain |-> <<>>, got |-> ""]

Err(kind, ptr, key, chain, got) ==
    [kind |-> kind, ptr |-> ptr, key |-> key, chain |-> chain, got |-> got]

\* (value, nil) and (nil, err) of getByPointer
PtrOk(val) == [ok |-> TRUE, val |-> val, err |-> NoErr]
PtrFail(e) == [ok |-> FALSE, val |-> Null, err |-> e]

\* (value, nil) and (nil, err) of inlineRefs.  Go ranges over a map in an
\* unspecified order, so when several children of an object fail, the error
\* returned is any one of theirs: errs is the set of errors the call can
\* return.  depth is the longest stack any call made on the way received.
InlOk(val, depth) == [ok |-> TRUE, val |-> val, errs |-> {}, depth |-> depth]
InlFail(errs, depth) == [ok |-> FALSE, val |-> Null, errs |-> errs, depth |-> depth]

-----------------------------------------------------------------------------
(* getByPointer, contains, deepClone.                                      *)

\* mutant of UnescapeSegment: ~0 is replaced before ~1
UnescapeSwapped(raw) ==
    ReplaceAll(ReplaceAll(raw, <<"~", "0">>, <<"~">>), <<"~", "1">>, <<"/">>)

UnescapeSegment(raw) ==
    ReplaceAll(ReplaceAll(raw, <<"~", "1">>, <<"/">>), <<"~", "0">>, <<"~">>)

\* mutant of Descend: obj[p] is used without looking at ok (nil when absent)
RECURSIVE DescendUnchecked(_, _, _)
DescendUnchecked(cur, parts, ptr) ==
    IF parts = <<>> THEN PtrOk(cur)
    ELSE LET p == UnescapeSegment(Head(parts)) IN
         IF cur.t # "obj"
         THEN PtrFail(Err("nonobject", ptr, p, <<>>, GoType(cur)))
         ELSE DescendUnchecked(IF p \in DOMAIN cur.m THEN cur.m[p] ELSE Null,
                               Tail(parts), ptr)

RECURSIVE Descend(_, _, _)
Descend(cur, parts, ptr) ==
    IF parts = <<>> THEN PtrOk(cur)
    ELSE LET p == UnescapeSegment(Head(parts)) IN
         IF cur.t # "obj"
         THEN PtrFail(Err("nonobject", ptr, p, <<>>, GoType(cur)))
         ELSE IF p \notin DOMAIN cur.m
         THEN PtrFail(Err("missing", ptr, p, <<>>, ""))
         ELSE Descend(cur.m[p], Tail(parts), ptr)

GetByPointer(root, ptr) ==
    IF ~HasPrefix(ptr, <<"#", "/">>)
    THEN PtrFail(Err("unsupported", ptr, <<>>, <<>>, ""))
    ELSE LET path == TrimPrefix(ptr, <<"#", "/">>) IN
         IF path = <<>> THEN PtrOk(root)
         ELSE Descend(root, Split(path, "/"), ptr)

\* mutant of contains: nothing is ever found on the stack
ContainsNever(stack, s) == FALSE

Contains(stack, s) == \E i \in 1..Len(stack) : stack[i] = s

\* json.Marshal then json.Unmarshal into any: a fresh value of the same shape
RECURSIVE DeepClone(_)
DeepClone(v) ==
    CASE v.t = "obj" -> Obj([k \in DOMAIN v.m |-> DeepClone(v.m[k])])
      [] v.t = "arr" -> Arr([i \in 1..Len(v.s) |-> DeepClone(v.s[i])])
      [] v.t = "str" -> Str(v.v)
      [] v.t = "num" -> Num(v.v)
      [] OTHER -> Null

-----------------------------------------------------------------------------
(* inlineRefs.                                                             *)

\* mutant of SiblingKeys: $ref itself is taken for a sibling
SiblingKeysKeepRef(v) == (DOMAIN v) \ {K_defs}

\* the keys of a $ref object resolved as siblings (lines 121-124)
SiblingKeys(v) == (DOMAIN v) \ {K_ref, K_defs}

\* the keys of a plain object that are kept (lines 153-156)
PlainKeys(v) == (DOMAIN v) \ {K_defs}

\* mutant of MergeObjects: the target's value is kept where both have the key
MergeTargetWins(rm, siblings) ==
    [k \in ((DOMAIN rm) \ {K_defs}) \cup (DOMAIN siblings) |->
        IF k \in DOMAIN rm THEN rm[k] ELSE siblings[k]]

\* out of lines 134-144: the target's keys but $defs, then the siblings on top
MergeObjects(rm, siblings) ==
    [k \in ((DOMAIN rm) \ {K_defs}) \cup (DOMAIN siblings) |->
        IF k \in DOMAIN siblings THEN siblings[k] ELSE rm[k]]

\* the stack handed to the resolution of the target (line 114)
PushRef(stack, refStr) == Append(stack, refStr)

\* mutant of SiblingStack: the siblings are resolved under the followed $ref
SiblingStackPushed(stack, refStr) == Append(stack, refStr)

\* the stack handed to the resolution of the siblings (line 125)
SiblingStack(stack, refStr) == stack

\* what a non-object target yields (line 148)
NonObjectTarget(resolvedTarget, target) == resolvedTarget

RECURSIVE InlineRefs(_, _, _)

\* the result paired with key k in a set of <<key, result>> pairs
ResultOf(rs, k) == (CHOOSE p \in rs : p[1] = k)[2]

\* the children of a map, each resolved with the same stack
InlineChildren(m, keys, root, stack) ==
    LET rs == {<<k, InlineRefs(m[k], root, stack)>> : k \in keys}
        bad == {p \in rs : ~p[2].ok}
        depth == SetMax({p[2].depth : p \in rs} \cup {Len(stack)})
    IN IF bad = {}
       THEN InlOk(Obj([k \in keys |-> ResultOf(rs, k).val]), depth)
       ELSE InlFail(UNION {p[2].errs : p \in bad}, depth)

InlineRefObject(v, root, stack) ==
    LET refVal == v[K_ref] IN
    IF refVal.t # "str"
    THEN InlFail({Err("type", <<>>, <<>>, <<>>, GoType(refVal))}, Len(stack))
    ELSE LET refStr == refVal.v IN
    IF Contains(stack, refStr)
    THEN InlFail({Err("cyclic", refStr, <<>>, Append(stack, refStr), "")}, Len(stack))
    ELSE LET got == GetByPointer(root, refStr) IN
    IF ~got.ok THEN InlFail({got.err}, Len(stack))
    ELSE LET rt == InlineRefs(DeepClone(got.val), root, PushRef(stack, refStr)) IN
    IF ~rt.ok THEN rt
    ELSE LET sib == InlineChildren(v, SiblingKeys(v), root, SiblingStack(stack, refStr))
             depth == Max(rt.depth, sib.depth)
         IN IF ~sib.ok THEN InlFail(sib.errs, depth)
            ELSE IF rt.val.t = "obj"
                 THEN InlOk(Obj(MergeObjects(rt.val.m, sib.val.m)), depth)
                 ELSE InlOk(NonObjectTarget(rt.val, got.val), depth)

InlineArray(s, root, stack) ==
    LET rs == {<<i, InlineRefs(s[i], root, stack)>> : i \in 1..Len(s)}
        bad == {p[1] : p \in {q \in rs : ~q[2].ok}}
    IN IF bad = {}
       THEN InlOk(Arr([i \in 1..Len(s) |-> ResultOf(rs, i).val]),
                  SetMax({p[2].depth : p \in rs} \cup {Len(stack)}))
       ELSE LET f == CHOOSE i \in bad : \A j \in bad : i <= j
            IN InlFail(ResultOf(rs, f).errs,
                       SetMax({p[2].depth : p \in {q \in rs : q[1] <= f}}))

\* A call whose stack is longer than MaxStack stands for a recursion that
\* does not end: the model cuts it there and reports "overflow".
InlineRefs(node, root, stack) ==
    IF Len(stack) > MaxStack
    THEN InlFail({Err("overflow", <<>>, <<>>, stack, "")}, Len(stack))
    ELSE CASE node.t = "obj" ->
                IF K_ref \in DOMAIN node.m
                THEN InlineRefObject(node.m, root, stack)
                ELSE InlineChildren(node.m, PlainKeys(node.m), root, stack)
           [] node.t = "arr" -> InlineArray(node.s, root, stack)
           [] OTHER -> InlOk(node, Len(stack))

-----------------------------------------------------------------------------
(* stripKeys.                                                              *)

StrippedKeys == {K_id, K_defs, K_schema}

RECURSIVE StripKeysRecursive(_)
StripKeysRecursive(node) ==
    CASE node.t = "obj" ->
            Obj([k \in (DOMAIN node.m) \ StrippedKeys |-> StripKeysRecursive(node.m[k])])
      [] node.t = "arr" ->
            Arr([i \in 1..Len(node.s) |-> StripKeysRecursive(node.s[i])])
      [] OTHER -> node

\* topSchema stays nil (Null) when the key is absent and when its value is null
StripKeys(node, keepTopLevelSchema) ==
    LET topSchema ==
            IF keepTopLevelSchema /\ node.t = "obj" /\ K_schema \in DOMAIN node.m
            THEN node.m[K_schema] ELSE Null
        cleaned == StripKeysRecursive(node)
    IN IF keepTopLevelSchema /\ topSchema # Null /\ cleaned.t = "obj"
       THEN Obj(MapPut(cleaned.m, K_schema, topSchema))
       ELSE cleaned

-----------------------------------------------------------------------------
(* Bytes, encoding/json and the file system.                               *)

\* The bytes of a file: whether they are well-formed JSON, the value they
\* denote, and whether they are laid out as MarshalIndent lays them out
\* (sorted keys, two-space indent) followed by one newline.
Bytes(valid, doc, layout) == [valid |-> valid, doc |-> doc, layout |-> layout]

NoBytes == Bytes(FALSE, Null, "none")

\* json.Unmarshal(b, &root)
Unmarshal(b) == [ok |-> b.valid, val |-> IF b.valid THEN b.doc ELSE Null]

\* append(json.MarshalIndent(resolved, "", "  "), '\n'); it cannot fail on a
\* value that json.Unmarshal produced
MarshalIndentNl(v) == Bytes(TRUE, v, "indent2+nl")

Separator == "/"

\* filepath.ToSlash
ToSlash(path) == [i \in 1..Len(path) |-> IF path[i] = Separator THEN "/" ELSE path[i]]

DefaultPerm == 420

DotJson == <<".", "j", "s", "o", "n">>

\* mutant of IsJsonName: the suffix is compared without lower-casing
IsJsonNameExact(name) == HasSuffix(name, DotJson)

IsJsonName(name) == HasSuffix(ToLower(name), DotJson)

FileErr(op, path, cause) == [op |-> op, path |-> path, cause |-> cause]

NoFileErr == FileErr("none", <<>>, NoErr)

IO(op, path, bytes, perm) == [op |-> op, path |-> path, bytes |-> bytes, perm |-> perm]

NoLast == [path |-> <<>>, parsed |-> FALSE, root |-> Null, inlined |-> FALSE,
           resolved |-> Null, depth |-> 0, cleaned |-> Null, err |-> NoFileErr]

Running == [done |-> FALSE, nilmap |-> TRUE, map |-> NoMap, err |-> NoFileErr]

\* return nil, err
ReturnErr(e) == [done |-> TRUE, nilmap |-> TRUE, map |-> NoMap, err |-> e]

\* return updates, nil
ReturnMap(m) == [done |-> TRUE, nilmap |-> FALSE, map |-> m, err |-> NoFileErr]

\* resolved = stripKeys(inlineRefs(root, root, nil), true)
Flatten(root) ==
    LET r == InlineRefs(root, root, <<>>) IN
    IF r.ok THEN [ok |-> TRUE, val |-> StripKeys(r.val, TRUE)]
    ELSE [ok |-> FALSE, val |-> Null]

\* mutant of OnCallbackError: the error is dropped and the walk goes on
OnCallbackErrorSkip(e, r) == r

\* The callback returned e: fs.WalkDir stops and returns e, and lines 89-91
\* return nil, e.  r is the return value so far.
OnCallbackError(e, r) == ReturnErr(e)

\* the entry WalkDir hands over next: none once the function has returned
NextPos(p, r) == IF r.done THEN p ELSE p + 1

\* One call of the WalkDir callback on entry pos, and, when it returns an
\* error, WalkDir's return of it and the nil map of lines 89-91.
Visit ==
    /\ ~ret.done
    /\ pos <= Len(fsys)
    /\ UNCHANGED <<fsys, writable, proot, pptr, pkey, pres>>
    /\ LET e == fsys[pos]
           path == e.name
           parsed == Unmarshal(disk[path])
           inl == InlineRefs(parsed.val, parsed.val, <<>>)
           cleaned == StripKeys(inl.val, TRUE)
           out == MarshalIndentNl(cleaned)
           readIO == IO("read", path, NoBytes, 0)
           perm == IF e.statErr THEN DefaultPerm ELSE e.perm
       IN
       /\ IF e.dir
          THEN /\ ret' = IF e.listErr
                         THEN OnCallbackError(FileErr("walk", path, NoErr), ret)
                         ELSE ret
               /\ UNCHANGED <<updates, disk, log, last>>
          ELSE IF ~IsJsonName(e.name)
          THEN UNCHANGED <<updates, disk, log, last, ret>>
          ELSE IF e.readErr
          THEN /\ ret' = OnCallbackError(FileErr("read", path, NoErr), ret)
               /\ last' = [NoLast EXCEPT !.path = path,
                                         !.err = FileErr("read", path, NoErr)]
               /\ log' = Append(log, readIO)
               /\ UNCHANGED <<updates, disk>>
          ELSE IF ~parsed.ok
          THEN /\ ret' = OnCallbackError(FileErr("parse", path, NoErr), ret)
               /\ last' = [NoLast EXCEPT !.path = path,
                                         !.err = FileErr("parse", path, NoErr)]
               /\ log' = Append(log, readIO)
               /\ UNCHANGED <<updates, disk>>
          ELSE IF ~inl.ok
          THEN \E cause \in inl.errs :
               /\ ret' = OnCallbackError(FileErr("inline refs", path, cause), ret)
               /\ last' = [NoLast EXCEPT !.path = path, !.parsed = TRUE,
                                         !.root = parsed.val, !.depth = inl.depth,
                                         !.err = FileErr("inline refs", path, cause)]
               /\ log' = Append(log, readIO)
               /\ UNCHANGED <<updates, disk>>
          ELSE /\ updates' = MapPut(updates, ToSlash(path), out)
               /\ last' = [path |-> path, parsed |-> TRUE, root |-> parsed.val,
                           inlined |-> TRUE, resolved |-> inl.val, depth |-> inl.depth,
                           cleaned |-> cleaned,
                           err |-> IF writable /\ e.writeErr
                                   THEN FileErr("write", path, NoErr) ELSE NoFileErr]
               /\ IF ~writable
                  THEN /\ log' = Append(log, readIO)
                       /\ UNCHANGED <<disk, ret>>
                  ELSE /\ log' = log \o <<readIO, IO("stat", path, NoBytes, 0),
                                          IO("write", path, out, perm)>>
                       /\ IF e.writeErr
                          THEN /\ ret' = OnCallbackError(FileErr("write", path, NoErr), ret)
                               /\ UNCHANGED disk
                          ELSE /\ disk' = [disk EXCEPT ![path] = out]
                               /\ UNCHANGED ret
       /\ pos' = NextPos(pos, ret')

\* WalkDir has handed every entry to the callback: return updates, nil
Finish ==
    /\ ~ret.done
    /\ pos > Len(fsys)
    /\ ret' = ReturnMap(updates)
    /\ UNCHANGED <<fsys, writable, pos, updates, disk, log, last, proot, pptr, pkey, pres>>

Next == Visit \/ Finish

-----------------------------------------------------------------------------
(* getByPointer on its own.                                                *)

\* getByPointer has not returned yet
PtrPending == PtrFail(Err("pending", <<>>, <<>>, <<>>, ""))

Resolve ==
    /\ pres = PtrPending
    /\ pres' = GetByPointer(proot, pptr)
    /\ UNCHANGED <<fsys, writable, pos, updates, disk, log, last, ret, proot, pptr, pkey>>

-----------------------------------------------------------------------------
(* The documents the flattener is run on.                                  *)

\* the object with the given <<key, value>> pairs
MapOf(pairs) ==
    Obj([k \in {pairs[i][1] : i \in DOMAIN pairs} |->
            pairs[CHOOSE i \in DOMAIN pairs : pairs[i][1] = k][2]])

S_type == <<"t", "y", "p", "e">>
S_title == <<"t", "i", "t", "l", "e">>
S_value == <<"v", "a", "l", "u", "e">>
S_properties == <<"p", "r", "o", "p", "e", "r", "t", "i", "e", "s">>
S_string == <<"s", "t", "r", "i", "n", "g">>
S_A == <<"A">>
S_B == <<"B">>
S_x == <<"x">>
S_y == <<"y">>

P_A == <<"#", "/", "$", "d", "e", "f", "s", "/", "A">>
P_B == <<"#", "/", "$", "d", "e", "f", "s", "/", "B">>
P_Missing == <<"#", "/", "$", "d", "e", "f", "s", "/", "M", "i", "s", "s", "i", "n", "g">>
P_Root == <<"#", "/">>
P_Value == <<"#", "/", "v", "a", "l", "u", "e">>
P_Hash == <<"#">>
P_File == <<"a", ".", "j", "s", "o", "n">>

B_type == MapOf(<<<<S_type, Str(S_string)>>>>)
B_titled == MapOf(<<<<S_type, Str(S_string)>>, <<S_title, Str(S_x)>>>>)
B_meta == MapOf(<<<<S_type, Str(S_string)>>, <<K_id, Str(<<"J">>)>>,
                  <<K_schema, Str(<<"T">>)>>>>)
B_ref(p) == MapOf(<<<<K_ref, Str(p)>>>>)
B_refTitle(p) == MapOf(<<<<K_ref, Str(p)>>, <<S_title, Str(S_y)>>>>)
B_refTwice(p) == MapOf(<<<<K_ref, Str(p)>>, <<S_x, B_ref(p)>>>>)
B_pair(p, q) == MapOf(<<<<S_x, B_ref(p)>>, <<S_y, B_ref(q)>>>>)
B_array(p) == Arr(<<B_ref(p), Str(<<"s">>)>>)
B_refDefs(p) == MapOf(<<<<K_ref, Str(p)>>, <<K_defs, MapOf(<<<<S_A, B_ref(p)>>>>)>>>>)
B_refNum == MapOf(<<<<K_ref, Num(<<"1">>)>>>>)
B_str == Str(<<"s">>)

\* body wrapped n times in {"properties": {"x": ...}}
RECURSIVE Nest(_, _)
Nest(n, body) ==
    IF n = 0 THEN body
    ELSE MapOf(<<<<S_properties, MapOf(<<<<S_x, Nest(n - 1, body)>>>>)>>>>)

DefBodiesA ==
    <<B_titled, B_meta, B_ref(P_B), B_refTitle(P_B), B_array(P_B), Nest(1, B_ref(P_A)),
      Arr(<<B_meta>>)>>

DefBodiesB ==
    <<B_type, B_ref(P_A), Nest(1, B_ref(P_A)), B_str, B_pair(P_A, P_A),
      B_refTitle(P_Root), Null>>

ValueBodies ==
    <<B_type, B_meta, B_ref(P_A), B_ref(P_B), B_refTitle(P_A), B_refTwice(P_A),
      B_pair(P_A, P_A), B_pair(P_B, P_Missing), B_array(P_A), B_refDefs(P_B),
      B_refNum, B_ref(P_Missing), B_ref(P_File), B_ref(P_Hash), B_ref(P_Root),
      B_ref(P_Value)>>

\* what the top-level object holds besides $defs and value
TopExtras ==
    << <<>>,
       <<<<K_schema, Str(<<"S">>)>>, <<K_id, Str(<<"I">>)>>>>,
       <<<<K_schema, Null>>>>,
       <<<<K_schema, MapOf(<<<<K_id, Str(<<"I">>)>>>>)>>>>,
       <<<<K_ref, Str(P_A)>>, <<K_schema, Str(<<"S">>)>>>>,
       <<<<K_ref, Str(P_A)>>, <<S_title, Str(S_y)>>>>,
       <<<<K_ref, Str(P_B)>>, <<K_schema, Str(<<"S">>)>>>> >>

Doc(top, a, b, v) ==
    MapOf(<<<<K_defs, MapOf(<<<<S_A, a>>, <<S_B, b>>>>)>>, <<S_value, v>>>> \o top)

\* documents that are not an object with $defs and value
BareDocs ==
    <<B_str, Arr(<<B_meta, Str(<<"s">>)>>), B_ref(P_Root), B_ref(P_Missing),
      MapOf(<<<<K_schema, Str(<<"S">>)>>, <<K_id, Str(<<"I">>)>>, <<<<"a">>, B_meta>>>>)>>

-----------------------------------------------------------------------------
(* The file systems the walk is run on.                                    *)

Entry(name, dir, listErr, readErr, writeErr, statErr, perm) ==
    [name |-> name, dir |-> dir, listErr |-> listErr, readErr |-> readErr,
     writeErr |-> writeErr, statErr |-> statErr, perm |-> perm]

File(name) == Entry(name, FALSE, FALSE, FALSE, FALSE, FALSE, DefaultPerm)

N_doc == <<"a", ".", "j", "s", "o", "n">>

InitIdle ==
    /\ pos = 1
    /\ updates = NoMap
    /\ log = <<>>
    /\ last = NoLast
    /\ ret = Running
    /\ proot = Null
    /\ pptr = <<>>
    /\ pkey = <<>>
    /\ pres = PtrFail(Err("not called", <<>>, <<>>, <<>>, ""))

OneFile(d) ==
    /\ fsys = <<File(N_doc)>>
    /\ writable = FALSE
    /\ disk = [p \in {N_doc} |-> Bytes(TRUE, d, "raw")]

\* one file holding one document, on a file system that cannot be written
InitDoc ==
    /\ \/ \E t \in DOMAIN TopExtras, a \in DOMAIN DefBodiesA, b \in DOMAIN DefBodiesB,
            v \in DOMAIN ValueBodies, n \in 0..MaxNest :
            OneFile(Doc(TopExtras[t], DefBodiesA[a], DefBodiesB[b],
                        Nest(n, ValueBodies[v])))
       \/ \E d \in DOMAIN BareDocs : OneFile(BareDocs[d])
    /\ InitIdle

SpecDoc == InitDoc /\ [][Next]_vars

-----------------------------------------------------------------------------
(* The walk over several entries.                                          *)

D_inline == Doc(<<>>, B_titled, B_type, B_refTitle(P_A))
D_strip == BareDocs[5]
D_cyclic == Doc(<<>>, B_ref(P_B), B_ref(P_A), B_ref(P_A))

Names == {<<"a", ".", "j", "s", "o", "n">>, <<"B", ".", "J", "S", "O", "N">>, <<"c", ".", "t", "x", "t">>}

\* an entry's flags and what it holds (NoBytes for a directory); 384 is the
\* permission 0600, 420 the default 0644
Kinds ==
    {<<Entry(<<>>, FALSE, FALSE, FALSE, FALSE, FALSE, DefaultPerm), Bytes(TRUE, D_inline, "raw")>>,
     <<Entry(<<>>, FALSE, FALSE, FALSE, FALSE, FALSE, 384), Bytes(TRUE, D_strip, "raw")>>,
     <<Entry(<<>>, FALSE, FALSE, FALSE, FALSE, FALSE, DefaultPerm), Bytes(TRUE, D_cyclic, "raw")>>,
     <<Entry(<<>>, FALSE, FALSE, FALSE, FALSE, FALSE, DefaultPerm), Bytes(FALSE, Null, "raw")>>,
     <<Entry(<<>>, FALSE, FALSE, TRUE, FALSE, FALSE, DefaultPerm), Bytes(TRUE, D_inline, "raw")>>,
     <<Entry(<<>>, FALSE, FALSE, FALSE, TRUE, FALSE, DefaultPerm), Bytes(TRUE, D_inline, "raw")>>,
     <<Entry(<<>>, FALSE, FALSE, FALSE, FALSE, TRUE, 384), Bytes(TRUE, D_strip, "raw")>>,
     <<Entry(<<>>, TRUE, FALSE, FALSE, FALSE, FALSE, DefaultPerm), NoBytes>>,
     <<Entry(<<>>, TRUE, TRUE, FALSE, FALSE, FALSE, DefaultPerm), NoBytes>>}

Init ==
    /\ writable \in BOOLEAN
    /\ \E n \in 1..MaxFiles :
       \E names \in [1..n -> Names], kinds \in [1..n -> Kinds] :
          /\ \A i, j \in 1..n : i # j => names[i] # names[j]
          /\ fsys = [i \in 1..n |-> [kinds[i][1] EXCEPT !.name = names[i]]]
          /\ disk = [p \in {names[i] : i \in 1..n} |->
                        kinds[CHOOSE i \in 1..n : names[i] = p][2]]
    /\ InitIdle

Spec == Init /\ [][Next]_vars

-----------------------------------------------------------------------------
(* The pointers getByPointer is run on.                                    *)

\* the strings over alphabet of length at most n
Strings(alphabet, n) == UNION {[1..k -> alphabet] : k \in 0..n}

PtrAlphabet == {"a", "b", "/", "~", "0", "1"}

InitPtrIdle ==
    /\ fsys = <<>>
    /\ writable = FALSE
    /\ pos = 1
    /\ updates = NoMap
    /\ disk = NoMap
    /\ log = <<>>
    /\ last = NoLast
    /\ ret = Running
    /\ pres = PtrPending

NextPtr == Resolve

\* RFC 6901 escaping of a key into a pointer segment: ~ to ~0, then / to ~1
EscapeSegment(k) ==
    ReplaceAll(ReplaceAll(k, <<"~">>, <<"~", "0">>), <<"/">>, <<"~", "1">>)

S_hit == <<"h", "i", "t">>
S_decoy == <<"d", "e", "c", "o", "y">>

\* {"$defs": {k: "hit", every other short key: "decoy"}}
EscapeDoc(k) ==
    MapOf(<<<<K_defs, Obj([j \in Strings(PtrAlphabet, 2) \cup {k} |->
                              IF j = k THEN Str(S_hit) ELSE Str(S_decoy)])>>>>)

\* a $defs key and the pointer #/$defs/<escaped key>
InitEscape ==
    /\ InitPtrIdle
    /\ pkey \in Strings(PtrAlphabet, MaxKeyLen)
    /\ proot = EscapeDoc(pkey)
    /\ pptr = <<"#", "/">> \o K_defs \o <<"/">> \o EscapeSegment(pkey)

SpecEscape == InitEscape /\ [][NextPtr]_vars

R_nested ==
    MapOf(<< <<<<"a">>, MapOf(<< <<<<"a">>, Str(<<"s">>)>>, <<<<"/">>, Num(<<"1">>)>>,
                                 <<<<>>, Str(<<"e">>)>>, <<<<"~">>, Str(<<"t">>)>> >>)>>,
             <<<<>>, MapOf(<< <<<<"a">>, Str(<<"u">>)>> >>)>>,
             <<<<"/">>, MapOf(<< <<<<"~", "1">>, Str(<<"x">>)>> >>)>>,
             <<<<"1">>, Arr(<<Str(<<"e">>)>>)>>,
             <<<<"~">>, Str(<<"t">>)>>,
             <<<<"0">>, Null>> >>)

PtrRoots == {R_nested, Arr(<<Str(<<"s">>)>>), Obj(NoMap)}

\* any short string, and #/ followed by any string over PtrAlphabet
InitPointer ==
    /\ InitPtrIdle
    /\ pkey = <<>>
    /\ proot \in PtrRoots
    /\ pptr \in Strings({"#", "/", "a"}, 2)
                \cup {<<"#", "/">> \o s : s \in Strings(PtrAlphabet, MaxPtrLen)}

SpecPointer == InitPointer /\ [][NextPtr]_vars

-----------------------------------------------------------------------------
(* Properties of the flattening of one document (SpecDoc).                 *)

\* the document the file held, and what the walk recorded for it
Input == disk[N_doc].doc

Flattened == ToSlash(N_doc) \in DOMAIN updates

Output == updates[ToSlash(N_doc)].doc

\* the keys of every object of a tree, at any depth
RECURSIVE KeysAnywhere(_)
KeysAnywhere(node) ==
    CASE node.t = "obj" ->
            (DOMAIN node.m) \cup UNION {KeysAnywhere(node.m[k]) : k \in DOMAIN node.m}
      [] node.t = "arr" -> UNION {KeysAnywhere(node.s[i]) : i \in 1..Len(node.s)}
      [] OTHER -> {}

\* the keys of every object of a tree but the top-level one
KeysBelowTop(node) ==
    CASE node.t = "obj" -> UNION {KeysAnywhere(node.m[k]) : k \in DOMAIN node.m}
      [] OTHER -> KeysAnywhere(node)

\* C1: whenever flattening a document succeeds, no object of the output, at
\* any depth, has a key $ref, $defs or $id, and no object but the top-level
\* one has a key $schema.
C1_SelfContained ==
    Flattened =>
        /\ KeysAnywhere(Output) \cap {K_ref, K_defs, K_id} = {}
        /\ K_schema \notin KeysBelowTop(Output)

\* C2: whenever flattening a document whose top level is an object succeeds,
\* the output's top-level $schema is the original's: present with the same
\* value when the original had the key, absent when it had not.
C2_TopSchemaKept ==
    (Flattened /\ Input.t = "obj") =>
        IF K_schema \in DOMAIN Input.m
        THEN /\ Output.t = "obj"
             /\ K_schema \in DOMAIN Output.m
             /\ Output.m[K_schema] = Input.m[K_schema]
        ELSE ~(Output.t = "obj" /\ K_schema \in DOMAIN Output.m)

\* C6: flattening is idempotent: flattening the output of a successful
\* flattening succeeds and yields the same tree.
C6_Idempotent ==
    Flattened => (Flatten(Output).ok /\ Flatten(Output).val = Output)

\* a document with $defs and a $ref was flattened to a different tree, which
\* flattening leaves as it is
C6_Witness ==
    /\ Flattened
    /\ Input = D_inline
    /\ Output = MapOf(<<<<S_value, MapOf(<<<<S_type, Str(S_string)>>, <<S_title, Str(S_y)>>>>)>>>>)
    /\ Flatten(Output).val = Output

-----------------------------------------------------------------------------
(* Properties of inlineRefs (SpecDoc).                                     *)

RECURSIVE HasPath(_, _)
HasPath(node, path) ==
    \/ path = <<>>
    \/ /\ node.t = "obj"
       /\ Head(path) \in DOMAIN node.m
       /\ HasPath(node.m[Head(path)], Tail(path))

RECURSIVE At(_, _)
At(node, path) == IF path = <<>> THEN node ELSE At(node.m[Head(path)], Tail(path))

RECURSIVE NestPath(_)
NestPath(n) == IF n = 0 THEN <<>> ELSE <<S_properties, S_x>> \o NestPath(n - 1)

\* where the documents hold their $ref objects outside $defs: the top level,
\* value, and value's nested x
RefPaths == {<<>>} \cup {<<S_value>> \o NestPath(n) : n \in 0..MaxNest}

\* C3: when inlineRefs meets an object with a $ref whose inlined target is
\* an object, the result has the target's keys but $defs together with the
\* object's keys but $ref and $defs; a key of the object carries the inlined
\* sibling, any other key the inlined target's value.
C3_Merge ==
    last.inlined =>
        \A path \in RefPaths :
            (HasPath(Input, path) /\ HasPath(last.resolved, path)) =>
                LET node == At(Input, path)
                    res == At(last.resolved, path)
                IN (node.t = "obj" /\ K_ref \in DOMAIN node.m) =>
                    LET ptr == node.m[K_ref].v
                        rt == InlineRefs(DeepClone(GetByPointer(Input, ptr).val),
                                         Input, <<ptr>>)
                        sibs == (DOMAIN node.m) \ {K_ref, K_defs}
                    IN rt.val.t = "obj" =>
                        /\ res.t = "obj"
                        /\ DOMAIN res.m = ((DOMAIN rt.val.m) \ {K_defs}) \cup sibs
                        /\ \A k \in DOMAIN res.m :
                              res.m[k] = IF k \in sibs
                                         THEN InlineRefs(node.m[k], Input, <<>>).val
                                         ELSE rt.val.m[k]

\* value is {"$ref": "#/$defs/A", "title": "y"}, A has title "x" and a type:
\* the inlined value has A's type and the sibling's title
C3_Witness ==
    /\ last.inlined
    /\ Input = D_inline
    /\ At(last.resolved, <<S_value>>) =
          MapOf(<<<<S_type, Str(S_string)>>, <<S_title, Str(S_y)>>>>)

\* the $ref strings a call on node meets without following any $ref
RECURSIVE DirectRefs(_)
DirectRefs(node) ==
    CASE node.t = "obj" ->
            (IF K_ref \in DOMAIN node.m /\ node.m[K_ref].t = "str"
             THEN {node.m[K_ref].v} ELSE {})
            \cup UNION {DirectRefs(node.m[k]) : k \in (DOMAIN node.m) \ {K_ref, K_defs}}
      [] node.t = "arr" -> UNION {DirectRefs(node.s[i]) : i \in 1..Len(node.s)}
      [] OTHER -> {}

\* the $ref strings met inside the target of pointer p
Links(root, p) ==
    LET g == GetByPointer(root, p) IN IF g.ok THEN DirectRefs(g.val) ELSE {}

RECURSIVE Closure(_, _)
Closure(root, S) ==
    LET T == S \cup UNION {Links(root, p) : p \in S}
    IN IF T = S THEN S ELSE Closure(root, T)

\* some pointer that can be reached from the top level leads back to itself
HasReachableCycle(root) ==
    \E p \in Closure(root, DirectRefs(root)) : p \in Closure(root, Links(root, p))

\* ch is a chain of $ref pointers followed from the top-level call: the
\* first is met in the document, each next one inside the target of the last
Linked(ch, root) ==
    /\ ch[1] \in DirectRefs(root)
    /\ \A i \in 1..(Len(ch) - 1) : ch[i + 1] \in Links(root, ch[i])

Distinct(seq) == \A i, j \in DOMAIN seq : i # j => seq[i] # seq[j]

D_twice == Doc(<<>>, B_titled, B_type, B_pair(P_A, P_A))
D_twiceSibling == Doc(<<>>, B_titled, B_type, B_refTwice(P_A))
D_selfNested == Doc(<<>>, Nest(1, B_ref(P_A)), B_type, B_ref(P_A))

\* C4: a cyclic-reference error is returned exactly for a $ref whose pointer
\* is already on the stack, the stack being the chain of pointers followed
\* from the top-level call to that $ref; the error reports the stack and
\* then the repeated pointer.  A document in which a followed chain leads
\* back to one of its pointers is never flattened.  The chain A -> B -> A
\* fails; the same pointer in two independent positions does not.
C4_Cycle ==
    /\ (ret.done /\ ret.err.cause.kind = "cyclic") =>
          LET ch == ret.err.cause.chain
              n == Len(ch)
          IN /\ n >= 2
             /\ ch[n] = ret.err.cause.ptr
             /\ \E i \in 1..(n - 1) : ch[i] = ch[n]
             /\ Distinct(SubSeq(ch, 1, n - 1))
             /\ Linked(ch, Input)
    /\ HasReachableCycle(Input) => ~Flattened
    /\ (ret.done /\ Input = D_cyclic) =>
          /\ ret.err.cause.kind = "cyclic"
          /\ ret.err.cause.chain = <<P_A, P_B, P_A>>
    /\ (ret.done /\ Input \in {D_twice, D_twiceSibling}) => ret.err = NoFileErr

\* value -> A -> B -> A was followed and refused at the second A
C4_Witness ==
    /\ ret.done
    /\ Input = D_cyclic
    /\ ret.err.cause.kind = "cyclic"
    /\ ret.err.cause.chain = <<P_A, P_B, P_A>>

\* every $ref string of a tree, $defs included
RECURSIVE AllRefStrings(_)
AllRefStrings(node) ==
    CASE node.t = "obj" ->
            (IF K_ref \in DOMAIN node.m /\ node.m[K_ref].t = "str"
             THEN {node.m[K_ref].v} ELSE {})
            \cup UNION {AllRefStrings(node.m[k]) : k \in DOMAIN node.m}
      [] node.t = "arr" -> UNION {AllRefStrings(node.s[i]) : i \in 1..Len(node.s)}
      [] OTHER -> {}

\* C10: inlineRefs ends on every document, with a tree or an error: no call
\* receives a stack longer than the number of distinct $ref strings of the
\* document (so the recursion is never cut), and the pointers of a stack are
\* pairwise distinct.
C10_Terminates ==
    /\ ret.err.cause.kind # "overflow"
    /\ last.parsed => last.depth <= Cardinality(AllRefStrings(last.root))
    /\ ret.err.cause.kind = "cyclic" =>
          Distinct(SubSeq(ret.err.cause.chain, 1, Len(ret.err.cause.chain) - 1))

\* a definition that refers to itself through a nested property was followed
\* once and refused the second time
C10_Witness ==
    /\ ret.done
    /\ Input = D_selfNested
    /\ ret.err.cause.kind = "cyclic"
    /\ ret.err.cause.chain = <<P_A, P_A>>
    /\ last.depth = 1

-----------------------------------------------------------------------------
(* Properties of the walk (Spec).                                          *)

\* the names of Names that end in .json whatever the case
JsonNames == {<<"a", ".", "j", "s", "o", "n">>, <<"B", ".", "J", "S", "O", "N">>}

IsJsonFile(e) == ~e.dir /\ e.name \in JsonNames

\* entry i is a .json file whose processing fails.  A file that was written
\* back holds a flattened document, which reads, parses and flattens.
FileFailsAt(i) ==
    /\ IsJsonFile(fsys[i])
    /\ \/ fsys[i].readErr
       \/ ~disk[fsys[i].name].valid
       \/ ~Flatten(disk[fsys[i].name].doc).ok
       \/ writable /\ fsys[i].writeErr

\* entry i is a directory the walk cannot list
DirFailsAt(i) == fsys[i].dir /\ fsys[i].listErr

\* the step at which entry i fails
FailingOp(i) ==
    LET e == fsys[i] IN
    IF e.dir THEN "walk"
    ELSE IF e.readErr THEN "read"
    ELSE IF ~disk[e.name].valid THEN "parse"
    ELSE IF ~Flatten(disk[e.name].doc).ok THEN "inline refs"
    ELSE "write"

ReturnedWholeMap ==
    /\ ret.err = NoFileErr
    /\ ~ret.nilmap
    /\ DOMAIN ret.map = {fsys[i].name : i \in {j \in 1..Len(fsys) : IsJsonFile(fsys[j])}}

\* nil and the error of the first entry, in traversal order, among failing
ReturnedFirstError(failing) ==
    /\ ret.nilmap
    /\ ret.map = NoMap
    /\ \E i \in failing :
          /\ \A j \in failing : i <= j
          /\ ret.err.path = fsys[i].name
          /\ ret.err.op = FailingOp(i)

FailingFiles == {i \in 1..Len(fsys) : FileFailsAt(i)}

FailingEntries == {i \in 1..Len(fsys) : FileFailsAt(i) \/ DirFailsAt(i)}

\* C5 as stated: the function returns either no error and a map with exactly
\* one entry per non-directory entry named *.json (any case), or a nil map
\* and the error of the first file whose read, parse, inlining or write-back
\* failed.
C5_AsStated ==
    ret.done => (ReturnedWholeMap \/ ReturnedFirstError(FailingFiles))

\* C5: the function returns either no error and a map with exactly one entry
\* per non-directory entry named *.json (any case), or a nil map and the
\* error of the first entry, in traversal order, that failed: a directory
\* the walk could not list, or a .json file whose read, parse, inlining or
\* write-back failed.  It never returns a partial map.
C5_AllOrNothing ==
    ret.done => (ReturnedWholeMap \/ ReturnedFirstError(FailingEntries))

\* the first file was recorded, the second failed: nil and its error came back
C5_Witness ==
    /\ ret.done
    /\ ret.nilmap
    /\ Len(fsys) = 2
    /\ DOMAIN updates = {fsys[1].name}
    /\ ret.err.path = fsys[2].name
    /\ ret.err.op = "parse"

Min(a, b) == IF a <= b THEN a ELSE b

\* entry i is a .json file whose read, parse or inlining fails
FailsBeforeOutput(i) ==
    /\ IsJsonFile(fsys[i])
    /\ \/ fsys[i].readErr
       \/ ~disk[fsys[i].name].valid
       \/ ~Flatten(disk[fsys[i].name].doc).ok

\* C9: on a file system that can be written, a file whose read, parse or
\* inlining fails gets no output (its content stays, nothing is recorded for
\* it), the walk never goes past it, no later file is read or written, and a
\* file is written only after its own read, with the bytes recorded for it.
C9_FailureIsolated ==
    writable =>
        /\ \A k \in DOMAIN log :
              \E i \in 1..Min(pos, Len(fsys)) : fsys[i].name = log[k].path
        /\ \A i \in 1..Min(pos - 1, Len(fsys)) : ~FailsBeforeOutput(i)
        /\ \A k \in DOMAIN log :
              log[k].op = "write" =>
                  /\ k >= 3
                  /\ log[k - 2] = IO("read", log[k].path, NoBytes, 0)
                  /\ log[k - 1] = IO("stat", log[k].path, NoBytes, 0)
                  /\ ToSlash(log[k].path) \in DOMAIN updates
                  /\ log[k].bytes = updates[ToSlash(log[k].path)]
        /\ (ret.done /\ ret.err.op \in {"read", "parse", "inline refs"}) =>
              /\ ret.err.path = fsys[pos].name
              /\ FailsBeforeOutput(pos)
              /\ ToSlash(ret.err.path) \notin DOMAIN updates
              /\ \A j \in pos..Len(fsys) :
                    /\ disk[fsys[j].name].layout # "indent2+nl"
                    /\ \A k \in DOMAIN log :
                          log[k].path = fsys[j].name => (j = pos /\ log[k].op = "read")

\* the first file was written back, the second has a cyclic $ref: it was
\* read, and neither written nor recorded
C9_Witness ==
    /\ writable
    /\ ret.done
    /\ ret.err.op = "inline refs"
    /\ ret.err.cause.kind = "cyclic"
    /\ pos = 2
    /\ disk[fsys[1].name].layout = "indent2+nl"
    /\ disk[fsys[2].name].layout = "raw"
    /\ Len(log) = 4

-----------------------------------------------------------------------------
(* Properties of getByPointer (SpecEscape, SpecPointer).                   *)

\* C7: for every key k, the segment escaped from k (~ to ~0, then / to ~1)
\* is unescaped by getByPointer back to k: #/$defs/<escaped k> resolves to
\* the value stored under the $defs key k.
C7_RoundTrip ==
    pres # PtrPending =>
        /\ pres.ok
        /\ pres.val = proot.m[K_defs].m[pkey]
        /\ pres.val = Str(S_hit)

\* the key a/b is addressed as #/$defs/a~1b and found
C7_Witness ==
    /\ pkey = <<"a", "/", "b">>
    /\ pptr = <<"#", "/">> \o K_defs \o <<"/", "a", "~", "1", "b">>
    /\ pres.ok
    /\ pres.val = Str(S_hit)

\* the value reached from root by the first i segments
RECURSIVE NodeAfter(_, _, _)
NodeAfter(root, segs, i) ==
    IF i = 0 THEN root ELSE NodeAfter(root, segs, i - 1).m[segs[i]]

\* each of the first i segments names a key of the object reached before it
RECURSIVE StepsOk(_, _, _)
StepsOk(root, segs, i) ==
    \/ i = 0
    \/ /\ StepsOk(root, segs, i - 1)
       /\ NodeAfter(root, segs, i - 1).t = "obj"
       /\ segs[i] \in DOMAIN NodeAfter(root, segs, i - 1).m

\* C8: getByPointer succeeds exactly when the pointer starts with #/ and
\* every unescaped segment, in order from the root, names a key of an
\* object (#/ alone yields the root).  Any other form fails as unsupported;
\* a segment applied to an array or scalar fails as a non-object; an absent
\* key fails as unresolved, naming the pointer and the segment.
C8_Resolves ==
    pres # PtrPending =>
        IF ~(Len(pptr) >= 2 /\ pptr[1] = "#" /\ pptr[2] = "/")
        THEN ~pres.ok /\ pres.err.kind = "unsupported" /\ pres.err.ptr = pptr
        ELSE IF Len(pptr) = 2
        THEN pres.ok /\ pres.val = proot
        ELSE LET raw == Split(SubSeq(pptr, 3, Len(pptr)), "/")
                 segs == [i \in 1..Len(raw) |-> UnescapeSegment(raw[i])]
                 n == Len(segs)
             IN IF StepsOk(proot, segs, n)
                THEN pres.ok /\ pres.val = NodeAfter(proot, segs, n)
                ELSE LET j == CHOOSE i \in 1..n :
                                 ~StepsOk(proot, segs, i) /\ StepsOk(proot, segs, i - 1)
                         cur == NodeAfter(proot, segs, j - 1)
                     IN /\ ~pres.ok
                        /\ pres.err.ptr = pptr
                        /\ pres.err.key = segs[j]
                        /\ pres.err.kind = IF cur.t = "obj" THEN "missing" ELSE "nonobject"

\* #/a/0: a is an object without the key 0
C8_Witness ==
    /\ proot = R_nested
    /\ pptr = <<"#", "/", "a", "/", "0">>
    /\ ~pres.ok
    /\ pres.err.kind = "missing"
    /\ pres.err.key = <<"0">>

====
